---- MODULE Spec2Model ----
(***************************************************************************)
(* Model of the via stitcher (src/stitcher.py): the raster pipeline of     *)
(* ViaStitcher (scanline polygon fill, per-layer coverage count, obstacle  *)
(* compositing, clearance erosion), the grid sampler and the commit /      *)
(* selection / refill sequence of ViaStitcher.stitch; and the Generate     *)
(* action of the dialog (src/ui.py), which calls stitch.                   *)
(*                                                                         *)
(* Lengths are integers in board units (nm).  A point is <<x, y>>.  A box  *)
(* is [pos |-> <<x, y>>, size |-> <<w, h>>].  A bitmap is a record         *)
(* [height, width, at] with at a function on (0..width-1) \X (0..height-1) *)
(* (the pixel <<x, y>> is numpy's bitmap[y, x]).                           *)
(***************************************************************************)
EXTENDS Integers, Sequences, FiniteSets, TLC

VARIABLES board, args, pc, overall_bbox, zone_bitmap, obstacle_bitmap,
          valid_bitmap, gx, gy, x, y, row, points_checked, total_points,
          vias_to_add, visited, calls, progress, result, raised, sel, run, prev,
          call, ret, dialog

\* stitcher.py:395  RESOLUTION = 100000 (nm per pixel)
RESOLUTION == 100000
\* stitcher.py:396  CLEARANCE = 250000 (0.25 mm)
CLEARANCE == 250000
\* stitcher.py:454  SCALE = 1000000 (1 mm in nm)
SCALE == 1000000
\* np.uint8 bitmaps (stitcher.py:89, 104, 129) hold values modulo 2^8
U8 == 256
\* stitcher.py:176  radius_nm = 1000000
DEFAULT_PAD_NM == 1000000

\* Python's None
None == "<None>"

Min(a, b) == IF a < b THEN a ELSE b
Max(a, b) == IF a > b THEN a ELSE b
Abs(a) == IF a < 0 THEN -a ELSE a

\* int(a / b) of Python: the quotient truncated toward zero
TruncDiv(a, b) ==
    LET n == IF b < 0 THEN -a ELSE a
        d == IF b < 0 THEN -b ELSE b
    IN  IF n >= 0 THEN n \div d ELSE -((-n) \div d)

Pixels(width, height) == (0 .. width - 1) \X (0 .. height - 1)

\* A numpy array holds its values: the function f evaluated at every index
array(f) == f @@ << >>

\* np.zeros((height, width))
zeros(height, width) ==
    [height |-> height, width |-> width,
     at |-> array([p \in Pixels(width, height) |-> 0])]

\* stitcher.py:68-69, 127-128
bitmap_width(bbox, resolution) == TruncDiv(bbox.size[1], resolution) + 1
bitmap_height(bbox, resolution) == TruncDiv(bbox.size[2], resolution) + 1

\* A variant of to_pixel that rounds toward minus infinity
to_pixel_floor(pos, bbox, resolution) ==
    << (pos[1] - bbox.pos[1]) \div resolution,
       (pos[2] - bbox.pos[2]) \div resolution >>

\* stitcher.py:131-134 (and 29-30): position to pixel coordinates
to_pixel(pos, bbox, resolution) ==
    << TruncDiv(pos[1] - bbox.pos[1], resolution),
       TruncDiv(pos[2] - bbox.pos[2], resolution) >>

\* stitcher.py:27-31
polygon_points(nodes, bbox, resolution) ==
    [i \in 1 .. Len(nodes) |-> to_pixel(nodes[i], bbox, resolution)]

\* stitcher.py:37-52: the sorted x intersections of scanline y
scan_intersections(points, sy) ==
    LET n == Len(points)
        p1(i) == points[i]
        p2(i) == points[(i % n) + 1]
        crosses(i) ==
            /\ p1(i)[2] # p2(i)[2]
            /\ ~ (sy < Min(p1(i)[2], p2(i)[2]) \/ sy >= Max(p1(i)[2], p2(i)[2]))
        xat(i) ==
            LET d == p2(i)[2] - p1(i)[2]
            IN  TruncDiv(p1(i)[1] * d + (sy - p1(i)[2]) * (p2(i)[1] - p1(i)[1]), d)
        idx == SelectSeq([i \in 1 .. n |-> i], crosses)
    IN  SortSeq([k \in 1 .. Len(idx) |-> xat(idx[k])], LAMBDA a, b : a < b)

\* stitcher.py:55-59: how many filled spans of the scanline cover column x
span_hits(xs, sx, width) ==
    Cardinality({k \in 1 .. Len(xs) - 1 :
                   /\ k % 2 = 1
                   /\ Max(0, xs[k]) <= sx
                   /\ sx <= Min(width - 1, xs[k + 1])})

\* stitcher.py:12-59
rasterize_polygon(bitmap, nodes, bbox, resolution, value) ==
    IF Len(nodes) < 3 THEN bitmap
    ELSE
      LET points == polygon_points(nodes, bbox, resolution)
          rows == array([sy \in 0 .. bitmap.height - 1 |-> scan_intersections(points, sy)])
      IN  [bitmap EXCEPT !.at =
             array([p \in Pixels(bitmap.width, bitmap.height) |->
                (bitmap.at[p] + value * span_hits(rows[p[2]], p[1], bitmap.width)) % U8])]

\* A variant of subtract_holes that leaves the holes filled
keep_holes(layer_map, holes, i, bbox, resolution) == layer_map

\* stitcher.py:98-106: each hole is rasterized into a scratch bitmap and the
\* layer bitmap is zeroed wherever the scratch bitmap is nonzero
RECURSIVE subtract_holes(_, _, _, _, _)
subtract_holes(layer_map, holes, i, bbox, resolution) ==
    IF i > Len(holes) THEN layer_map
    ELSE
      LET temp == rasterize_polygon(zeros(layer_map.height, layer_map.width),
                                    holes[i], bbox, resolution, 1)
          punched == [layer_map EXCEPT !.at =
                        array([p \in Pixels(layer_map.width, layer_map.height) |->
                                 IF temp.at[p] > 0 THEN 0 ELSE layer_map.at[p]])]
      IN  subtract_holes(punched, holes, i + 1, bbox, resolution)

\* stitcher.py:95-106: one polygon: its outline, then its holes
rasterize_poly(layer_map, poly, bbox, resolution) ==
    subtract_holes(rasterize_polygon(layer_map, poly.outline, bbox, resolution, 1),
                   poly.holes, 1, bbox, resolution)

\* stitcher.py:91-106: the polygons lo..hi of one layer of one zone, in list
\* order (the first half of the range, then the second half on its result)
RECURSIVE rasterize_poly_list(_, _, _, _, _, _)
rasterize_poly_list(layer_map, poly_list, lo, hi, bbox, resolution) ==
    IF lo > hi THEN layer_map
    ELSE IF lo = hi THEN rasterize_poly(layer_map, poly_list[lo], bbox, resolution)
    ELSE
      LET mid == (lo + hi) \div 2
          first == rasterize_poly_list(layer_map, poly_list, lo, mid, bbox, resolution)
      IN  IF first = first
          THEN rasterize_poly_list(first, poly_list, mid + 1, hi, bbox, resolution)
          ELSE first

\* stitcher.py:83-106: the (layer_id, poly_list) items of one zone
RECURSIVE rasterize_zone_items(_, _, _, _, _)
rasterize_zone_items(layer_maps, items, i, bbox, resolution) ==
    IF i > Len(items) THEN layer_maps
    ELSE IF Len(items[i].polys) = 0
      THEN rasterize_zone_items(layer_maps, items, i + 1, bbox, resolution)
    ELSE
      LET layer_id == items[i].layer
          height == bitmap_height(bbox, resolution)
          width == bitmap_width(bbox, resolution)
          have == IF layer_id \in DOMAIN layer_maps THEN layer_maps
                  ELSE layer_maps @@ (layer_id :> zeros(height, width))
          drawn == rasterize_poly_list(have[layer_id], items[i].polys, 1,
                                       Len(items[i].polys), bbox, resolution)
      IN  rasterize_zone_items([have EXCEPT ![layer_id] = drawn], items, i + 1,
                               bbox, resolution)

\* stitcher.py:75-106: all zones, in list order
RECURSIVE rasterize_layer_maps(_, _, _, _, _)
rasterize_layer_maps(layer_maps, zones, i, bbox, resolution) ==
    IF i > Len(zones) THEN layer_maps
    ELSE rasterize_layer_maps(
           rasterize_zone_items(layer_maps, zones[i].filled_polygons, 1, bbox, resolution),
           zones, i + 1, bbox, resolution)

\* layer_maps = {} (stitcher.py:73)
empty_layer_maps == [l \in {} |-> zeros(0, 0)]

\* stitcher.py:61-112
rasterize_zones_by_layer(zones, bbox, resolution) ==
    LET width == bitmap_width(bbox, resolution)
        height == bitmap_height(bbox, resolution)
        layer_maps == rasterize_layer_maps(empty_layer_maps, zones, 1, bbox, resolution)
    IN  [height |-> height, width |-> width,
         at |-> array([p \in Pixels(width, height) |->
                   Cardinality({l \in DOMAIN layer_maps : layer_maps[l].at[p] > 0})])]

\* stitcher.py:136-140
draw_circle(bitmap, cx, cy, radius_px) ==
    [bitmap EXCEPT !.at =
       array([p \in Pixels(bitmap.width, bitmap.height) |->
          IF (p[1] - cx) * (p[1] - cx) + (p[2] - cy) * (p[2] - cy) <= radius_px * radius_px
          THEN 1 ELSE bitmap.at[p]])]

\* stitcher.py:145-162: the integer line walk from (x1, y1) to (x2, y2)
RECURSIVE line_walk(_, _, _, _, _, _, _, _, _)
line_walk(x1, y1, x2, y2, dx, dy, sx, sy, err) ==
    IF x1 = x2 /\ y1 = y2 THEN << <<x1, y1>> >>
    ELSE
      LET e2 == 2 * err
          stepx == e2 > -dy
          stepy == e2 < dx
          err1 == IF stepx THEN err - dy ELSE err
          nx == IF stepx THEN x1 + sx ELSE x1
          err2 == IF stepy THEN err1 + dx ELSE err1
          ny == IF stepy THEN y1 + sy ELSE y1
      IN  << <<x1, y1>> >> \o line_walk(nx, ny, x2, y2, dx, dy, sx, sy, err2)

RECURSIVE stamp_circles(_, _, _, _)
stamp_circles(bitmap, points, i, radius_px) ==
    IF i > Len(points) THEN bitmap
    ELSE stamp_circles(draw_circle(bitmap, points[i][1], points[i][2], radius_px),
                       points, i + 1, radius_px)

\* stitcher.py:142-166
draw_line(bitmap, x1, y1, x2, y2, width_px) ==
    LET dx == Abs(x2 - x1)
        dy == Abs(y2 - y1)
        sx == IF x1 < x2 THEN 1 ELSE -1
        sy == IF y1 < y2 THEN 1 ELSE -1
        points == line_walk(x1, y1, x2, y2, dx, dy, sx, sy, dx - dy)
    IN  stamp_circles(bitmap, points, 1, width_px \div 2)

\* stitcher.py:170, 192, 200, 209: "x.net and x.net.name == net_name"
on_net(item, net_name) == item.net # None /\ item.net = net_name

\* stitcher.py:176-185: the pad's copper layers, each <<size.x, size.y>>, or << >>
\* for a layer without a size attribute
RECURSIVE pad_radius_nm(_, _, _)
pad_radius_nm(copper_layers, i, radius_nm) ==
    IF i > Len(copper_layers) THEN radius_nm
    ELSE IF Len(copper_layers[i]) = 0
      THEN pad_radius_nm(copper_layers, i + 1, radius_nm)
    ELSE
      LET curr_max == Max(copper_layers[i][1], copper_layers[i][2])
      IN  pad_radius_nm(copper_layers, i + 1,
                        IF curr_max > radius_nm THEN curr_max ELSE radius_nm)

\* stitcher.py:168-188
RECURSIVE obstacle_pads(_, _, _, _, _, _)
obstacle_pads(bitmap, pads, i, net_name, bbox, resolution) ==
    IF i > Len(pads) THEN bitmap
    ELSE IF on_net(pads[i], net_name)
      THEN obstacle_pads(bitmap, pads, i + 1, net_name, bbox, resolution)
    ELSE
      LET c == to_pixel(pads[i].position, bbox, resolution)
          radius_nm == pad_radius_nm(pads[i].copper_layers, 1, DEFAULT_PAD_NM)
          radius_px == TruncDiv(radius_nm, 2 * resolution)
      IN  obstacle_pads(draw_circle(bitmap, c[1], c[2], radius_px), pads, i + 1,
                        net_name, bbox, resolution)

\* stitcher.py:190-196
RECURSIVE obstacle_vias(_, _, _, _, _, _)
obstacle_vias(bitmap, vias, i, net_name, bbox, resolution) ==
    IF i > Len(vias) THEN bitmap
    ELSE IF on_net(vias[i], net_name)
      THEN obstacle_vias(bitmap, vias, i + 1, net_name, bbox, resolution)
    ELSE
      LET c == to_pixel(vias[i].position, bbox, resolution)
          radius_px == TruncDiv(vias[i].diameter, 2 * resolution)
      IN  obstacle_vias(draw_circle(bitmap, c[1], c[2], radius_px), vias, i + 1,
                        net_name, bbox, resolution)

\* stitcher.py:198-205
RECURSIVE obstacle_tracks(_, _, _, _, _, _)
obstacle_tracks(bitmap, tracks, i, net_name, bbox, resolution) ==
    IF i > Len(tracks) THEN bitmap
    ELSE IF on_net(tracks[i], net_name)
      THEN obstacle_tracks(bitmap, tracks, i + 1, net_name, bbox, resolution)
    ELSE
      LET a == to_pixel(tracks[i].start, bbox, resolution)
          b == to_pixel(tracks[i].end, bbox, resolution)
          width_px == TruncDiv(tracks[i].width, resolution)
      IN  obstacle_tracks(draw_line(bitmap, a[1], a[2], b[1], b[2], width_px),
                          tracks, i + 1, net_name, bbox, resolution)

\* stitcher.py:233-237: the outlines lo..hi of one poly_list, in list order (the
\* first half of the range, then the second half on its result); holes are not
\* subtracted
RECURSIVE obstacle_outlines(_, _, _, _, _, _)
obstacle_outlines(bitmap, poly_list, lo, hi, bbox, resolution) ==
    IF lo > hi THEN bitmap
    ELSE IF lo = hi
      THEN rasterize_polygon(bitmap, poly_list[lo].outline, bbox, resolution, 1)
    ELSE
      LET mid == (lo + hi) \div 2
          first == obstacle_outlines(bitmap, poly_list, lo, mid, bbox, resolution)
      IN  IF first = first
          THEN obstacle_outlines(first, poly_list, mid + 1, hi, bbox, resolution)
          ELSE first

\* stitcher.py:230-237: the poly_lists of one zone (polys_dict.values())
RECURSIVE obstacle_zone_items(_, _, _, _, _)
obstacle_zone_items(bitmap, items, i, bbox, resolution) ==
    IF i > Len(items) THEN bitmap
    ELSE obstacle_zone_items(
           obstacle_outlines(bitmap, items[i].polys, 1, Len(items[i].polys), bbox,
                             resolution),
           items, i + 1, bbox, resolution)

\* stitcher.py:207-237
RECURSIVE obstacle_zones(_, _, _, _, _, _, _)
obstacle_zones(bitmap, zones, i, net_name, bbox, resolution, ignored_zone_ids) ==
    IF i > Len(zones) THEN bitmap
    ELSE IF \/ on_net(zones[i], net_name)
            \/ ~ zones[i].filled
            \/ zones[i].id \in ignored_zone_ids
      THEN obstacle_zones(bitmap, zones, i + 1, net_name, bbox, resolution,
                          ignored_zone_ids)
    ELSE obstacle_zones(
           obstacle_zone_items(bitmap, zones[i].filled_polygons, 1, bbox, resolution),
           zones, i + 1, net_name, bbox, resolution, ignored_zone_ids)

\* stitcher.py:114-239
rasterize_obstacles(brd, net_name, bbox, resolution, ignored_zone_ids) ==
    LET width == bitmap_width(bbox, resolution)
        height == bitmap_height(bbox, resolution)
        b0 == zeros(height, width)
        b1 == obstacle_pads(b0, brd.pads, 1, net_name, bbox, resolution)
        b2 == obstacle_vias(b1, brd.vias, 1, net_name, bbox, resolution)
        b3 == obstacle_tracks(b2, brd.tracks, 1, net_name, bbox, resolution)
    IN  obstacle_zones(b3, brd.zones, 1, net_name, bbox, resolution, ignored_zone_ids)

\* A variant of binary_erosion that takes the pixels beyond the border as set
binary_erosion_open(bitmap, k) ==
    [bitmap EXCEPT !.at =
       array([p \in Pixels(bitmap.width, bitmap.height) |->
          IF \A dx \in -k .. k : \A dy \in -k .. k :
               \/ <<p[1] + dx, p[2] + dy>> \notin Pixels(bitmap.width, bitmap.height)
               \/ bitmap.at[<<p[1] + dx, p[2] + dy>>] # 0
          THEN 1 ELSE 0])]

\* scipy.ndimage.binary_erosion(bitmap, structure=np.ones((2k+1, 2k+1))) as called
\* at stitcher.py:258-259: a pixel survives iff every pixel of the square of
\* Chebyshev radius k around it is inside the bitmap and nonzero (border_value 0)
binary_erosion(bitmap, k) ==
    [bitmap EXCEPT !.at =
       array([p \in Pixels(bitmap.width, bitmap.height) |->
          IF \A dx \in -k .. k : \A dy \in -k .. k :
               /\ <<p[1] + dx, p[2] + dy>> \in Pixels(bitmap.width, bitmap.height)
               /\ bitmap.at[<<p[1] + dx, p[2] + dy>>] # 0
          THEN 1 ELSE 0])]

\* stitcher.py:241-260
apply_clearance(bitmap, clearance_nm, resolution) ==
    LET clearance_px == TruncDiv(clearance_nm, resolution)
    IN  IF clearance_px < 1 THEN bitmap
        ELSE binary_erosion(bitmap, clearance_px)

\* A variant of valid_area that accepts coverage by a single layer
valid_area_any_cover(zb, ob) ==
    [zb EXCEPT !.at =
       array([p \in Pixels(zb.width, zb.height) |->
          IF zb.at[p] >= 1 /\ ob.at[p] = 0 THEN 1 ELSE 0])]

\* stitcher.py:413 and the astype(np.uint8) of line 418
valid_area(zb, ob) ==
    [zb EXCEPT !.at =
       array([p \in Pixels(zb.width, zb.height) |->
          IF zb.at[p] >= 2 /\ ob.at[p] = 0 THEN 1 ELSE 0])]

\* The net names of the boards, in the ascending order of Python's str
NetOrder == << "", "GND", "VCC" >>

\* a < b on str
str_less(a, b) ==
    \E i, j \in 1 .. Len(NetOrder) : i < j /\ NetOrder[i] = a /\ NetOrder[j] = b

\* A variant of spans_layers that is content with one layer
spans_one_layer(layers) == Cardinality(layers) > 0

\* stitcher.py:292: len(layers) > 1
spans_layers(layers) == Cardinality(layers) > 1

\* stitcher.py:267-288: the dict nets_with_zones after the zones 1..i, as its keys
\* in insertion order and the layer set of each key
RECURSIVE nets_with_zones(_, _)
nets_with_zones(zones, i) ==
    IF i = 0 THEN [keys |-> << >>, layers |-> [n \in {} |-> {}]]
    ELSE
      LET d == nets_with_zones(zones, i - 1)
          zone == zones[i]
          net == zone.net
          seen == {zone.layers[k] : k \in 1 .. Len(zone.layers)}
      IN  IF ~ zone.filled THEN d
          ELSE IF net = None \/ net = "" THEN d
          ELSE IF net \in DOMAIN d.layers
            THEN [d EXCEPT !.layers[net] = @ \cup seen]
          ELSE [keys |-> Append(d.keys, net), layers |-> d.layers @@ (net :> seen)]

\* stitcher.py:262-296
get_candidate_nets(brd) ==
    LET d == nets_with_zones(brd.zones, Len(brd.zones))
        candidates == SelectSeq(d.keys, LAMBDA n : spans_layers(d.layers[n]))
    IN  SortSeq(candidates, str_less)

\* Box2.merge as stitch uses it (stitcher.py:388): the union of two boxes
merge(a, b) ==
    LET left == Min(a.pos[1], b.pos[1])
        top == Min(a.pos[2], b.pos[2])
        right == Max(a.pos[1] + a.size[1], b.pos[1] + b.size[1])
        bottom == Max(a.pos[2] + a.size[2], b.pos[2] + b.size[2])
    IN  [pos |-> <<left, top>>, size |-> <<right - left, bottom - top>>]

\* stitcher.py:382-388: the union of the zones' bounding boxes (acc is None exactly before the first zone)
RECURSIVE union_bbox(_, _, _)
union_bbox(zones, i, acc) ==
    IF i > Len(zones) THEN acc
    ELSE union_bbox(zones, i + 1,
                    IF i = 1 THEN zones[i].bbox
                    ELSE merge(acc, zones[i].bbox))

\* A variant of net_zones that takes the unfilled zones too
all_net_zones(brd, net_name) ==
    SelectSeq(brd.zones, LAMBDA z : on_net(z, net_name))

\* stitcher.py:370: the filled zones of the net
net_zones(brd, net_name) ==
    SelectSeq(brd.zones, LAMBDA z : on_net(z, net_name) /\ z.filled)

\* A length in mm (a Python float) is an integer count of 1/SubUnits board units,
\* so that int(mm * SCALE) has something to truncate
SubUnits == 2

\* int(v * SCALE) of stitcher.py:456-457, 501-502
mm_to_units(v) == TruncDiv(v, SubUnits)

\* A variant of grid_spacing that takes a negative spacing by its magnitude
grid_spacing_abs(grid_mm) ==
    LET g == mm_to_units(grid_mm)
    IN  IF g = 0 THEN mm_to_units(1 * SCALE * SubUnits) ELSE Abs(g)

\* A variant of grid_spacing that replaces a spacing of 0 only
grid_spacing_nonzero(grid_mm) ==
    IF mm_to_units(grid_mm) = 0 THEN SCALE ELSE mm_to_units(grid_mm)

\* stitcher.py:456-461: the grid spacing in board units
grid_spacing(grid_mm) ==
    LET g == mm_to_units(grid_mm)
    IN  IF g <= 0 THEN mm_to_units(1 * SCALE * SubUnits) ELSE g

\* A variant of stagger_offset without the offset
stagger_none(stagger, col, spacing) == 0

\* stitcher.py:476-479
stagger_offset(stagger, col, spacing) ==
    IF stagger /\ col % 2 = 1 THEN spacing \div 2 ELSE 0

\* stitcher.py:488-496: the validity test of the grid point (x, y)
point_valid(vb, bbox, px, py) ==
    LET p == to_pixel(<<px, py>>, bbox, RESOLUTION)
    IN  /\ 0 <= p[1] /\ p[1] < vb.width
        /\ 0 <= p[2] /\ p[2] < vb.height
        /\ vb.at[p] > 0

\* stitcher.py:498-502
new_via(a, px, py) ==
    [position |-> <<px, py>>, net |-> a.net_name,
     diameter |-> mm_to_units(a.via_diameter),
     drill_diameter |-> mm_to_units(a.via_drill)]

\* stitcher.py:380-418: the bounding box and the bitmaps of one call of stitch
raster_pipeline(brd, net_name, ignored_zone_ids) ==
    LET zones == net_zones(brd, net_name)
        bbox == union_bbox(zones, 1, [pos |-> <<0, 0>>, size |-> <<0, 0>>])
        zb == rasterize_zones_by_layer(zones, bbox, RESOLUTION)
        ob == rasterize_obstacles(brd, net_name, bbox, RESOLUTION, ignored_zone_ids)
    IN  [overall_bbox |-> bbox, zone_bitmap |-> zb, obstacle_bitmap |-> ob,
         valid_bitmap |-> apply_clearance(valid_area(zb, ob), CLEARANCE, RESOLUTION)]

(***************************************************************************)
(* The boards and the calls the model runs stitch on.                      *)
(***************************************************************************)

\* Side of the target zones' bounding box, in pixels
BoxPx == 8

Side == BoxPx * RESOLUTION

\* The board origin of the target zones' bounding box
Org == <<300000, 500000>>

\* The rectangle with corners Org + (x1, y1) and Org + (x2, y2), as a node list
Rect(x1, y1, x2, y2) ==
    << <<Org[1] + x1, Org[2] + y1>>, <<Org[1] + x2, Org[2] + y1>>,
       <<Org[1] + x2, Org[2] + y2>>, <<Org[1] + x1, Org[2] + y2>> >>

Box(x1, y1, x2, y2) ==
    [pos |-> <<Org[1] + x1, Org[2] + y1>>, size |-> <<x2 - x1, y2 - y1>>]

Poly(outline, holes) == [outline |-> outline, holes |-> holes]

Zone(id, net, filled, bbox, items) ==
    [id |-> id, net |-> net, filled |-> filled, bbox |-> bbox,
     layers |-> [i \in 1 .. Len(items) |-> items[i].layer],
     filled_polygons |-> items]

Item(layer, polys) == [layer |-> layer, polys |-> polys]

FullRect == Rect(0, 0, Side, Side)
FullBox == Box(0, 0, Side, Side)

\* The target net's zones: two full zones on two layers; one zone on two layers
\* with a hole in one of them; two zones that overlap in part; a filled zone and
\* an unfilled one
TargetZones ==
    { << Zone("t1", "GND", TRUE, FullBox, << Item("F.Cu", << Poly(FullRect, << >>) >>) >>),
         Zone("t2", "GND", TRUE, FullBox, << Item("B.Cu", << Poly(FullRect, << >>) >>) >>) >>,
      << Zone("t3", "GND", TRUE, FullBox,
              << Item("F.Cu", << Poly(FullRect, << Rect(250000, 300000, 350000, 400000) >>) >>),
                 Item("B.Cu", << Poly(FullRect, << >>) >>) >>) >>,
      << Zone("t4", "GND", TRUE, Box(0, 0, Side - 150000, Side),
              << Item("F.Cu", << Poly(Rect(0, 0, Side - 150000, Side), << >>) >>) >>),
         Zone("t5", "GND", TRUE, Box(100000, 50000, Side, Side),
              << Item("B.Cu", << Poly(Rect(100000, 50000, Side, Side), << >>) >>) >>) >>,
      << Zone("t6", "GND", TRUE, FullBox, << Item("F.Cu", << Poly(FullRect, << >>) >>) >>),
         Zone("t7", "GND", FALSE, FullBox, << Item("B.Cu", << Poly(FullRect, << >>) >>) >>) >> }

\* A zone whose fill is a stack of n copies of one outline on one layer
Stacked(id, net, n, outline) ==
    Zone(id, net, TRUE, FullBox,
         << Item("In1.Cu", array([i \in 1 .. n |-> Poly(outline, << >>)])) >>)

RightPart == Rect(Side - 350000, -200000, Side + 400000, Side + 200000)

NoItems == [zones |-> << >>, pads |-> << >>, vias |-> << >>, tracks |-> << >>]

\* What else is on the board: nothing; a foreign zone and an unfilled one; a pad,
\* a via and a track; a zone without a net.  z4 is the only zone of net NC
Foreign ==
    { NoItems,
      [NoItems EXCEPT !.zones =
         << Zone("z1", "VCC", TRUE, FullBox, << Item("F.Cu", << Poly(RightPart, << >>) >>) >>),
            Zone("z4", "NC", FALSE, FullBox, << Item("F.Cu", << Poly(FullRect, << >>) >>) >>) >>],
      [NoItems EXCEPT
         !.pads = << [net |-> "VCC", position |-> <<Org[1] - 300000, Org[2] - 300000>>,
                      copper_layers |-> << << >> >>],
                     [net |-> "GND", position |-> <<Org[1] + 400000, Org[2] + 400000>>,
                      copper_layers |-> << <<1500000, 1200000>> >>] >>,
         !.vias = << [net |-> "VCC", position |-> <<Org[1] + Side, Org[2] + Side>>,
                      diameter |-> 450000] >>,
         !.tracks = << [net |-> "VCC", start |-> <<Org[1], Org[2] + Side>>,
                        end |-> <<Org[1] + 350000, Org[2] + Side - 100000>>,
                        width |-> 200000] >>],
      [NoItems EXCEPT !.zones =
         << Zone("z5", None, TRUE, FullBox,
                 << Item("B.Cu", << Poly(Rect(-150000, 350000, 250000, 450000), << >>) >>) >>) >>] }

\* Foreign fills stacked U8 deep over the right part of the box: U8 - 1 polygons
\* in one zone and one more in another
StackedForeign ==
    [NoItems EXCEPT !.zones =
       << Stacked("z2", "VCC", U8 - 1, RightPart), Stacked("z3", "VCC", 1, RightPart) >>]

BoardOf(t, f) ==
    [nets |-> {"GND", "VCC", "NC"}, zones |-> t \o f.zones, pads |-> f.pads,
     vias |-> f.vias, tracks |-> f.tracks]

Boards == { BoardOf(t, f) : t \in TargetZones, f \in Foreign }

StackedBoards ==
    { BoardOf(t, StackedForeign) : t \in {tz \in TargetZones : tz[1].id = "t1"} }

\* The ids of the board's filled zones that are not on the net
foreign_zone_ids(b, net_name) ==
    { b.zones[i].id : i \in {j \in 1 .. Len(b.zones) :
                               ~ on_net(b.zones[j], net_name) /\ b.zones[j].filled} }

\* <<grid_x, grid_y>> in mm, as counts of 1/SubUnits board units: 0.2 mm, and
\* spacings that resolve to an odd number of board units, to a negative number
\* and to zero
Mm02 == 200000 * SubUnits
MmOdd == 300001 * SubUnits + 1
GridInputs ==
    { <<Mm02, Mm02>>, <<MmOdd, Mm02>>, <<Mm02, MmOdd>>,
      <<0, 0>>, <<-Mm02, Mm02>>, <<1, MmOdd>>, <<Mm02, 1>> }

Call(net_name, grid, stagger, ignored_zone_ids, refill_after, progress_callback) ==
    [net_name |-> net_name, via_diameter |-> 600000 * SubUnits + 1, via_drill |-> 300000 * SubUnits,
     grid_x |-> grid[1], grid_y |-> grid[2], stagger |-> stagger,
     ignored_zone_ids |-> ignored_zone_ids, refill_after |-> refill_after,
     progress_callback |-> progress_callback]

\* The calls with a progress callback, on every grid, and the calls without one,
\* on the first grid
Calls ==
    { Call(n, g, st, ig, rf, TRUE) :
        n \in {"GND", "NC", "XX"}, g \in GridInputs, st \in BOOLEAN,
        ig \in {{}, {"z1"}}, rf \in BOOLEAN }
      \cup
    { Call(n, <<Mm02, Mm02>>, st, ig, rf, FALSE) :
        n \in {"GND", "NC", "XX"}, st \in BOOLEAN, ig \in {{}, {"z1"}}, rf \in BOOLEAN }

\* The call on the board with the stacked fills
StackedCalls ==
    { Call("GND", <<MmOdd, MmOdd>>, FALSE, {}, FALSE, FALSE) }

(***************************************************************************)
(* ViaStitcher.stitch as a state machine.  pc is the position in stitch;   *)
(* calls is the log of the mutating board calls attempted so far, each     *)
(* with its outcome; progress is the log of progress_callback's percents,  *)
(* each the fraction <<numerator, denominator>>; visited is the set of     *)
(* grid points the sampling loops have tested.  run counts the calls of    *)
(* stitch on this board and prev keeps the previous call's ignore set and  *)
(* return value.                                                           *)
(***************************************************************************)

vars == << board, args, pc, overall_bbox, zone_bitmap, obstacle_bitmap,
           valid_bitmap, gx, gy, x, y, row, points_checked, total_points,
           vias_to_add, visited, calls, progress, result, raised, sel, run, prev,
           call, ret, dialog >>

raster_vars == << overall_bbox, zone_bitmap, obstacle_bitmap, valid_bitmap >>
grid_vars == << gx, gy, x, y, row, points_checked, total_points >>

NoBox == [pos |-> <<0, 0>>, size |-> <<0, 0>>]
NoPrev == [ignored_zone_ids |-> {}, result |-> 0]

\* No dialog is open
NoDialog == << >>

\* The locals of stitch before it has assigned them
Fresh ==
    /\ overall_bbox = NoBox
    /\ zone_bitmap = zeros(0, 0)
    /\ obstacle_bitmap = zeros(0, 0)
    /\ valid_bitmap = zeros(0, 0)
    /\ gx = 0 /\ gy = 0 /\ x = 0 /\ y = 0 /\ row = 0
    /\ points_checked = 0 /\ total_points = 0
    /\ vias_to_add = << >>
    /\ visited = {}
    /\ calls = << >>
    /\ progress = << >>
    /\ result = 0
    /\ raised = FALSE
    /\ sel = 0

Init ==
    /\ \/ /\ board \in Boards
          /\ args \in Calls
          /\ args.ignored_zone_ids \subseteq foreign_zone_ids(board, "GND")
       \/ /\ board \in StackedBoards
          /\ args \in StackedCalls
    /\ pc = "find_net"
    /\ run = 1
    /\ prev = NoPrev
    /\ Fresh
    /\ call = << >>
    /\ ret = << >>
    /\ dialog = NoDialog

\* progress_callback(percent, ...) when a callback was given
report(percent) ==
    IF args.progress_callback THEN Append(progress, percent) ELSE progress

board_call(op, ok, arg) == Append(calls, [op |-> op, ok |-> ok, arg |-> arg])

\* stitcher.py:356-376
FindNet ==
    /\ pc = "find_net"
    /\ IF args.net_name \notin board.nets
       THEN /\ result' = 0
            /\ pc' = "done"
            /\ UNCHANGED progress
       ELSE /\ progress' = report(<<10, 1>>)
            /\ IF Len(net_zones(board, args.net_name)) = 0
               THEN result' = 0 /\ pc' = "done"
               ELSE pc' = "rasterize" /\ UNCHANGED result
    /\ UNCHANGED << board, args, raster_vars, grid_vars, vias_to_add, visited, calls,
                    raised, sel, run, prev, call, ret, dialog >>

\* stitcher.py:380-471: the bounding box, the bitmaps and the grid set-up
Rasterize ==
    /\ pc = "rasterize"
    /\ LET r == raster_pipeline(board, args.net_name, args.ignored_zone_ids)
           sx == grid_spacing(args.grid_x)
           sy == grid_spacing(args.grid_y)
           total_cols == TruncDiv(r.overall_bbox.size[1], sx) + 1
           total_rows == TruncDiv(r.overall_bbox.size[2], sy) + 1
       IN  /\ overall_bbox' = r.overall_bbox
           /\ zone_bitmap' = r.zone_bitmap
           /\ obstacle_bitmap' = r.obstacle_bitmap
           /\ valid_bitmap' = r.valid_bitmap
           /\ gx' = sx
           /\ gy' = sy
           /\ total_points' = total_cols * total_rows
           /\ points_checked' = 0
           /\ x' = r.overall_bbox.pos[1]
           /\ row' = 0
    /\ progress' = IF args.progress_callback
                   THEN progress \o << <<15, 1>>, <<35, 1>>, <<55, 1>>, <<60, 1>>, <<65, 1>> >>
                   ELSE progress
    /\ pc' = "column"
    /\ UNCHANGED << board, args, y, vias_to_add, visited, calls, result, raised,
                    sel, run, prev, call, ret, dialog >>

end_x == overall_bbox.pos[1] + overall_bbox.size[1]
end_y == overall_bbox.pos[2] + overall_bbox.size[2]

\* stitcher.py:473-481 and, when the outer loop ends, 517-521
Column ==
    /\ pc = "column"
    /\ IF x <= end_x
       THEN /\ y' = overall_bbox.pos[2] + stagger_offset(args.stagger, row, gy)
            /\ pc' = "row"
            /\ UNCHANGED progress
       ELSE /\ progress' = report(<<90, 1>>)
            /\ pc' = IF Len(vias_to_add) > 0 THEN "begin_commit" ELSE "refill"
            /\ UNCHANGED y
    /\ UNCHANGED << board, args, raster_vars, gx, gy, x, row, points_checked,
                    total_points, vias_to_add, visited, calls, result, raised, sel,
                    run, prev, call, ret, dialog >>

\* A variant of grid_progress that reports the share of the points visited
grid_progress_share(checked, total) == <<100 * checked, total>>

\* stitcher.py:514: 65 + (25 * points_checked / total_points), as a fraction
grid_progress(checked, total) == <<65 * total + 25 * checked, total>>

\* stitcher.py:483-515: one grid point, or the end of the column
Row ==
    /\ pc = "row"
    /\ IF y <= end_y
       THEN /\ vias_to_add' = IF point_valid(valid_bitmap, overall_bbox, x, y)
                              THEN Append(vias_to_add, new_via(args, x, y))
                              ELSE vias_to_add
            /\ visited' = visited \cup {<<x, y>>}
            /\ y' = y + gy
            /\ points_checked' = points_checked + 1
            /\ UNCHANGED << x, row, progress, pc >>
       ELSE /\ x' = x + gx
            /\ row' = row + 1
            /\ progress' = IF total_points > 0
                           THEN report(grid_progress(points_checked, total_points))
                           ELSE progress
            /\ pc' = "column"
            /\ UNCHANGED << y, points_checked, vias_to_add, visited >>
    /\ UNCHANGED << board, args, raster_vars, gx, gy, total_points, calls, result,
                    raised, sel, run, prev, call, ret, dialog >>

\* A variant of TryCall in which stitch goes on to the next call of the block
\* after a failure
TryCallGoOn(at, op, arg, next) ==
    /\ pc = at
    /\ \E ok \in BOOLEAN :
         /\ calls' = board_call(op, ok, arg)
         /\ pc' = next
    /\ UNCHANGED << board, args, raster_vars, grid_vars, vias_to_add, visited,
                    result, raised, run, prev, call, ret, dialog >>

\* A board call inside the try block of stitcher.py:522-538: it returns, or it
\* raises and the except clause takes stitch past the rest of the block
TryCall(at, op, arg, next) ==
    /\ pc = at
    /\ \E ok \in BOOLEAN :
         /\ calls' = board_call(op, ok, arg)
         /\ pc' = IF ok THEN next ELSE "refill"
    /\ UNCHANGED << board, args, raster_vars, grid_vars, vias_to_add, visited,
                    result, raised, run, prev, call, ret, dialog >>

\* stitcher.py:524
BeginCommit ==
    /\ TryCall("begin_commit", "begin_commit", 0, "create_items")
    /\ UNCHANGED << progress, sel >>

\* stitcher.py:525
CreateItems ==
    /\ TryCall("create_items", "create_items", Len(vias_to_add), "push_commit")
    /\ UNCHANGED << progress, sel >>

\* stitcher.py:526-531
PushCommit ==
    /\ TryCall("push_commit", "push_commit", 0, "clear_selection")
    /\ progress' = IF pc' = "clear_selection" THEN report(<<95, 1>>) ELSE progress
    /\ UNCHANGED sel

\* stitcher.py:533-534
ClearSelection ==
    /\ TryCall("clear_selection", "clear_selection", 0, "add_to_selection")
    /\ sel' = 1
    /\ UNCHANGED progress

\* stitcher.py:534-535: one iteration of the selection loop, or its end
AddToSelection ==
    /\ pc = "add_to_selection"
    /\ IF sel <= Len(vias_to_add)
       THEN /\ TryCall("add_to_selection", "add_to_selection", sel, "add_to_selection")
            /\ sel' = sel + 1
       ELSE /\ pc' = "refill"
            /\ UNCHANGED << board, args, raster_vars, grid_vars, vias_to_add, visited,
                            calls, result, raised, sel, run, prev, call, ret, dialog >>
    /\ UNCHANGED progress

\* A variant of Refill that refills whatever refill_after says
RefillAlways ==
    /\ pc = "refill"
    /\ progress' = report(<<99, 1>>)
    /\ \E ok \in BOOLEAN :
         /\ calls' = board_call("refill_zones", ok, 0)
         /\ raised' = ~ ok
         /\ result' = IF ok THEN Len(vias_to_add) ELSE result
    /\ pc' = "done"
    /\ UNCHANGED << board, args, raster_vars, grid_vars, vias_to_add, visited, sel,
                    run, prev, call, ret, dialog >>

\* stitcher.py:541-548: the refill, outside the try block, and the return
Refill ==
    /\ pc = "refill"
    /\ IF args.refill_after
       THEN /\ progress' = report(<<99, 1>>)
            /\ \E ok \in BOOLEAN :
                 /\ calls' = board_call("refill_zones", ok, 0)
                 /\ raised' = ~ ok
                 /\ result' = IF ok THEN Len(vias_to_add) ELSE result
       ELSE /\ result' = Len(vias_to_add)
            /\ UNCHANGED << progress, calls, raised >>
    /\ pc' = "done"
    /\ UNCHANGED << board, args, raster_vars, grid_vars, vias_to_add, visited, sel,
                    run, prev, call, ret, dialog >>

\* A second call of stitch on the same board, with the same arguments except
\* that one more foreign filled zone is ignored
StitchAgain ==
    /\ pc = "done"
    /\ run = 1
    /\ ~ raised
    /\ \E i \in 1 .. Len(board.zones) :
         /\ ~ on_net(board.zones[i], args.net_name)
         /\ board.zones[i].filled
         /\ board.zones[i].id \notin args.ignored_zone_ids
         /\ args' = [args EXCEPT !.ignored_zone_ids = @ \cup {board.zones[i].id}]
    /\ prev' = [ignored_zone_ids |-> args.ignored_zone_ids, result |-> result]
    /\ run' = 2
    /\ pc' = "find_net"
    /\ overall_bbox' = NoBox
    /\ zone_bitmap' = zeros(0, 0)
    /\ obstacle_bitmap' = zeros(0, 0)
    /\ valid_bitmap' = zeros(0, 0)
    /\ gx' = 0 /\ gy' = 0 /\ x' = 0 /\ y' = 0 /\ row' = 0
    /\ points_checked' = 0 /\ total_points' = 0
    /\ vias_to_add' = << >>
    /\ visited' = {}
    /\ calls' = << >>
    /\ progress' = << >>
    /\ result' = 0
    /\ raised' = FALSE
    /\ sel' = 0
    /\ UNCHANGED << board, call, ret, dialog >>

Next ==
    \/ FindNet
    \/ Rasterize
    \/ Column
    \/ Row
    \/ BeginCommit
    \/ CreateItems
    \/ PushCommit
    \/ ClearSelection
    \/ AddToSelection
    \/ Refill
    \/ StitchAgain

Spec == Init /\ [][Next]_vars

\* Calls of stitch that get to the sampling loops: on every grid, with and
\* without stagger and refill, on the boards whose zones of the net have one
\* bounding box and on those where they differ
InitLoops ==
    /\ Init
    /\ board \in Boards
    /\ args.net_name = "GND"
    /\ args.progress_callback
    /\ args.ignored_zone_ids = {}
    /\ board.zones[1].id \in {"t1", "t4"}

\* The steps of stitch from the sampling loops on
LoopsAndCommit ==
    \/ Column
    \/ Row
    \/ BeginCommit
    \/ CreateItems
    \/ PushCommit
    \/ ClearSelection
    \/ AddToSelection
    \/ Refill

\* stitch runs on one thread, so that a step of it that is reached is taken; a
\* board call returns or raises (it does not block for ever)
SpecLoops == InitLoops /\ [][Next]_vars /\ WF_vars(LoopsAndCommit)

(***************************************************************************)
(* Single methods of ViaStitcher, each called on its own: call is the      *)
(* method's arguments and ret what it returns.  The variables of stitch    *)
(* stay as they are before a call of stitch.                               *)
(***************************************************************************)

stitch_vars == << args, overall_bbox, zone_bitmap, obstacle_bitmap, valid_bitmap,
                  gx, gy, x, y, row, points_checked, total_points, vias_to_add,
                  visited, calls, progress, result, raised, sel, run, prev >>

NoStitch ==
    /\ args = Call("GND", <<Mm02, Mm02>>, FALSE, {}, FALSE, FALSE)
    /\ run = 0
    /\ prev = NoPrev
    /\ Fresh

\* Zones per board in the boards of get_candidate_nets
MaxZones == 2

LayerLists == { <<"F.Cu">>, <<"B.Cu">>, <<"F.Cu", "B.Cu">>, <<"F.Cu", "F.Cu">> }

\* A zone of net n on the layers ls, with nothing in its fill
NetZone(n, filled, ls) ==
    Zone("z", n, filled, FullBox, [i \in 1 .. Len(ls) |-> Item(ls[i], << >>)])

NetZones ==
    { NetZone(n, f, ls) : n \in {"GND", "VCC", "", None}, f \in BOOLEAN, ls \in LayerLists }

\* The sequences of at most n zones
RECURSIVE ZoneLists(_)
ZoneLists(n) ==
    IF n = 0 THEN { << >> }
    ELSE LET shorter == ZoneLists(n - 1)
         IN  shorter \cup { Append(zs, z) : zs \in shorter, z \in NetZones }

NetBoards == { BoardOf(zs, NoItems) : zs \in ZoneLists(MaxZones) }

InitNets ==
    /\ board \in NetBoards
    /\ pc = "get_candidate_nets"
    /\ call = << >>
    /\ ret = << >>
    /\ NoStitch
    /\ dialog = NoDialog

\* stitcher.py:262-296
GetCandidateNets ==
    /\ pc = "get_candidate_nets"
    /\ ret' = get_candidate_nets(board)
    /\ pc' = "returned"
    /\ UNCHANGED << board, call, stitch_vars, dialog >>

NextNets == GetCandidateNets

SpecNets == InitNets /\ [][NextNets]_vars

\* Width of the bitmaps of apply_clearance is ErodeSide + 1, their height ErodeSide
ErodeSide == 5
\* Unset pixels per bitmap
MaxUnset == 2

ErodePixels == Pixels(ErodeSide + 1, ErodeSide)

\* The sets of at most n pixels
RECURSIVE PixelSets(_)
PixelSets(n) ==
    IF n = 0 THEN { {} }
    ELSE LET smaller == PixelSets(n - 1)
         IN  smaller \cup { ps \cup {p} : ps \in smaller, p \in ErodePixels }

\* The binary bitmap with exactly the pixels of unset at 0
BinaryBitmap(unset) ==
    [height |-> ErodeSide, width |-> ErodeSide + 1,
     at |-> array([p \in ErodePixels |-> IF p \in unset THEN 0 ELSE 1])]

\* Clearances of 0, below one pixel, of one pixel and the CLEARANCE of stitch
ErodeCalls ==
    { [bitmap |-> BinaryBitmap(unset), clearance_nm |-> c, resolution |-> RESOLUTION] :
        unset \in PixelSets(MaxUnset),
        c \in {0, RESOLUTION - 1, RESOLUTION, CLEARANCE} }

InitErode ==
    /\ call \in ErodeCalls
    /\ pc = "apply_clearance"
    /\ board = BoardOf(<< >>, NoItems)
    /\ ret = << >>
    /\ NoStitch
    /\ dialog = NoDialog

\* stitcher.py:241-260
ApplyClearance ==
    /\ pc = "apply_clearance"
    /\ ret' = apply_clearance(call.bitmap, call.clearance_nm, call.resolution)
    /\ pc' = "returned"
    /\ UNCHANGED << board, call, stitch_vars, dialog >>

NextErode == ApplyClearance

SpecErode == InitErode /\ [][NextErode]_vars

\* Board units per pixel in the calls of rasterize_zones_by_layer
HoleRes == 10

HoleBox == [pos |-> <<0, 0>>, size |-> <<80, 80>>]

\* The quadrilateral (a, t), (r, t), (r, b), (c, b): a rectangle when a = c, and
\* with a slanted left edge otherwise
Quad(a, t, r, b, c) == << <<a, t>>, <<r, t>>, <<r, b>>, <<c, b>> >>

Outlines == { Quad(a, t, r, b, a) : a \in {0, 4}, t \in {0, 7}, r \in {76, 80}, b \in {73, 80} }

\* Holes strictly inside every outline
Holes ==
    { Quad(a, t, r, b, c) :
        a \in {14, 20, 27, 39}, c \in {14, 20, 27, 39},
        t \in {20, 25}, r \in {50, 58}, b \in {52, 60} }

\* One zone of one layer, the only one on it, with one polygon with one hole
HoleCalls ==
    { [zones |-> << Zone("t1", "GND", TRUE, HoleBox,
                         << Item("F.Cu", << Poly(o, << h >>) >>) >>) >>,
       bbox |-> HoleBox, resolution |-> HoleRes] : o \in Outlines, h \in Holes }

InitHole ==
    /\ call \in HoleCalls
    /\ pc = "rasterize_zones_by_layer"
    /\ board = BoardOf(<< >>, NoItems)
    /\ ret = << >>
    /\ NoStitch
    /\ dialog = NoDialog

\* stitcher.py:61-112
RasterizeZonesByLayer ==
    /\ pc = "rasterize_zones_by_layer"
    /\ ret' = rasterize_zones_by_layer(call.zones, call.bbox, call.resolution)
    /\ pc' = "returned"
    /\ UNCHANGED << board, call, stitch_vars, dialog >>

NextHole == RasterizeZonesByLayer

SpecHole == InitHole /\ [][NextHole]_vars

\* Side of the bounding box, in pixels, in the calls of rasterize_obstacles
PadBoxPx == 20

PadBox == [pos |-> Org, size |-> <<PadBoxPx * RESOLUTION, PadBoxPx * RESOLUTION>>]

\* layer.size of a copper layer, << >> for a layer without a size attribute
LayerSizes ==
    { << >>, <<600000, 400000>>, <<200000, 900000>>, <<1000000, 1000000>>,
      <<1500000, 1200000>> }

\* padstack.copper_layers: no layer (also a pad without a padstack), one or two
CopperLayers ==
    { << >> } \cup { <<a>> : a \in LayerSizes } \cup { <<a, b>> : a \in LayerSizes, b \in LayerSizes }

\* In the box off the pixel raster, on its corner, and to the left of and above it
PadPositions ==
    { <<Org[1] + 1030000, Org[2] + 950000>>, Org, <<Org[1] - 250000, Org[2] - 130000>> }

Pad(net, position, copper_layers) ==
    [net |-> net, position |-> position, copper_layers |-> copper_layers]

Pads == { Pad(n, q, c) : n \in {"VCC", "GND", None}, q \in PadPositions, c \in CopperLayers }

\* A board with one pad, or with that pad and a second pad of another net
PadLists ==
    { <<a>> : a \in Pads }
      \cup { <<a, Pad("NC", <<Org[1] + 1600000, Org[2] + 1500000>>, << <<400000, 300000>> >>)>> :
               a \in {d \in Pads : d.position = Org} }

PadBoards == { [BoardOf(<< >>, NoItems) EXCEPT !.pads = ps] : ps \in PadLists }

PadCalls ==
    { [net_name |-> "GND", bbox |-> PadBox, resolution |-> RESOLUTION,
       ignored_zone_ids |-> {}] }

InitPads ==
    /\ board \in PadBoards
    /\ call \in PadCalls
    /\ pc = "rasterize_obstacles"
    /\ ret = << >>
    /\ NoStitch
    /\ dialog = NoDialog

\* stitcher.py:114-239, on a board whose only items are pads
RasterizeObstacles ==
    /\ pc = "rasterize_obstacles"
    /\ ret' = rasterize_obstacles(board, call.net_name, call.bbox, call.resolution,
                                  call.ignored_zone_ids)
    /\ pc' = "returned"
    /\ UNCHANGED << board, call, stitch_vars, dialog >>

NextPads == RasterizeObstacles

SpecPads == InitPads /\ [][NextPads]_vars

\* Outlines of fills that share a layer: the whole box, its left part, its right
\* part, and an island in the middle of the box
CoverAll == Quad(0, 0, 80, 80, 0)
CoverLeft == Quad(0, 0, 40, 80, 0)
CoverRight == Quad(30, 0, 80, 80, 30)
CoverIsland == Quad(30, 30, 50, 50, 30)

\* The polygons of the fills: without a hole, and with a hole inside the outline
CoverPolys ==
    { Poly(o, << >>) : o \in {CoverAll, CoverLeft, CoverRight, CoverIsland} }
      \cup { Poly(CoverAll, << Quad(20, 20, 60, 60, 20) >>),
              Poly(CoverLeft, << Quad(10, 20, 30, 60, 10) >>) }

\* A zone with one polygon on one layer, and the zone whose fill on F.Cu is a
\* polygon with a hole and an island inside that hole, in either list order
CoverZones ==
    { Zone("t", "GND", TRUE, HoleBox, << Item(l, << q >>) >>) :
        l \in {"F.Cu", "B.Cu"}, q \in CoverPolys }
      \cup { Zone("t", "GND", TRUE, HoleBox, << Item("F.Cu", ql) >>) :
               ql \in { << Poly(CoverAll, << Quad(20, 20, 60, 60, 20) >>), Poly(CoverIsland, << >>) >>,
                         << Poly(CoverIsland, << >>), Poly(CoverAll, << Quad(20, 20, 60, 60, 20) >>) >> } }

\* One zone, or two zones in either order
CoverCalls ==
    { [zones |-> zs, bbox |-> HoleBox, resolution |-> HoleRes] :
        zs \in { <<a>> : a \in CoverZones }
                 \cup { << a, [b EXCEPT !.id = "u"] >> : a \in CoverZones, b \in CoverZones } }

InitCover ==
    /\ call \in CoverCalls
    /\ pc = "rasterize_zones_by_layer"
    /\ board = BoardOf(<< >>, NoItems)
    /\ ret = << >>
    /\ NoStitch
    /\ dialog = NoDialog

\* stitcher.py:61-112, on zones whose fills overlap on a layer
RasterizeZonesOnLayers ==
    /\ pc = "rasterize_zones_by_layer"
    /\ ret' = rasterize_zones_by_layer(call.zones, call.bbox, call.resolution)
    /\ pc' = "returned"
    /\ UNCHANGED << board, call, stitch_vars, dialog >>

NextCover == RasterizeZonesOnLayers

SpecCover == InitCover /\ [][NextCover]_vars

\* Vertices inside the box, and to the left of, above, to the right of and below
\* it, on and off the pixel raster
Vertices ==
    { <<-25, -4>>, <<-10, 33>>, <<7, -13>>, <<33, 86>>, <<86, 7>>, <<45, 45>> }

\* The triangles on these vertices, in every order of the nodes
VertexCalls ==
    { [nodes |-> t, bbox |-> HoleBox, resolution |-> HoleRes] :
        t \in { u \in Vertices \X Vertices \X Vertices :
                  u[1] # u[2] /\ u[1] # u[3] /\ u[2] # u[3] } }

InitVertex ==
    /\ call \in VertexCalls
    /\ pc = "rasterize_polygon"
    /\ board = BoardOf(<< >>, NoItems)
    /\ ret = << >>
    /\ NoStitch
    /\ dialog = NoDialog

\* stitcher.py:12-59 on an empty bitmap of the box: points is the local list of
\* the pixel coordinates of the nodes, bitmap the bitmap after the call
RasterizePolygon ==
    /\ pc = "rasterize_polygon"
    /\ ret' = [points |-> polygon_points(call.nodes, call.bbox, call.resolution),
               bitmap |-> rasterize_polygon(
                            zeros(bitmap_height(call.bbox, call.resolution),
                                  bitmap_width(call.bbox, call.resolution)),
                            call.nodes, call.bbox, call.resolution, 1)]
    /\ pc' = "returned"
    /\ UNCHANGED << board, call, stitch_vars, dialog >>

NextVertex == RasterizePolygon

SpecVertex == InitVertex /\ [][NextVertex]_vars

(***************************************************************************)
(* ViaStitcherDialog.on_stitch (src/ui.py).  dialog is the record of the   *)
(* dialog's widgets; call is the call of ViaStitcher.stitch that on_stitch *)
(* makes (its positional arguments and its keyword arguments) and ret the  *)
(* outcome of that call.  Numbers are in 1/1000 mm.                        *)
(***************************************************************************)

\* stitcher.py:333: the parameters of stitch after self, in order, and those
\* of them that have a default
stitch_parameters ==
    << "net_name", "via_diameter", "via_drill", "grid_x", "grid_y", "stagger",
       "ignored_zone_ids", "refill_after", "progress_callback" >>

stitch_defaults == {"ignored_zone_ids", "refill_after", "progress_callback"}

\* Python's binding of a call to the parameters: no keyword that is not a
\* parameter, no parameter given twice, no parameter without a value
accepts(parameters, defaults, positional, keywords) ==
    /\ Len(positional) <= Len(parameters)
    /\ DOMAIN keywords \subseteq {parameters[i] : i \in 1 .. Len(parameters)}
    /\ \A i \in 1 .. Len(positional) : parameters[i] \notin DOMAIN keywords
    /\ \A i \in 1 .. Len(parameters) :
         \/ i <= Len(positional)
         \/ parameters[i] \in DOMAIN keywords
         \/ parameters[i] \in defaults

\* The texts of the number fields that float() converts, with their values
FloatOf ==
    [t \in {"0.6", "0.3", "2.5", "0.0", "0", "-1"} |->
       CASE t = "0.6" -> 600
         [] t = "0.3" -> 300
         [] t = "2.5" -> 2500
         [] t = "-1" -> -1000
         [] OTHER -> 0]

\* float(text): the value, or ValueError
float(text) ==
    IF text \in DOMAIN FloatOf THEN [ok |-> TRUE, value |-> FloatOf[text]]
    ELSE [ok |-> FALSE, value |-> 0]

Label(text, count) == [text |-> text, count |-> count]

\* The dialog after init_ui, with what the user has put into its fields
Dialog(via_dia, grid_x_text, grid_y_text, offset_x, stagger, refill_after, checked) ==
    [net_choice |-> "GND", via_dia |-> via_dia, via_drill |-> "0.3",
     grid_x |-> grid_x_text, grid_y |-> grid_y_text,
     offset_x |-> offset_x, offset_y |-> "0.0",
     chk_stagger |-> stagger, chk_refill_after |-> refill_after,
     zone_ids |-> << "z1" >>, checked |-> checked,
     ok_btn |-> TRUE, progress_bar |-> 0, status_label |-> Label("Ready", 0),
     message |-> "", ended |-> FALSE]

Dialogs ==
    { Dialog(d, tx, ty, ox, st, rf, ch) :
        d \in {"0.6", "abc"}, tx \in {"2.5", "0", "-1", ""}, ty \in {"2.5", "0.0"},
        ox \in {"0.0", "x"}, st \in BOOLEAN, rf \in BOOLEAN, ch \in {{}, {1}} }

\* What a call of stitch that is bound to its parameters can do: return a
\* count, or raise
StitchOutcomes ==
    { [raised |-> "", count |-> n] : n \in {0, 3} } \cup { [raised |-> "Exception", count |-> 0] }

InitDialog ==
    /\ dialog \in Dialogs
    /\ pc = "on_stitch"
    /\ board = BoardOf(<< >>, NoItems)
    /\ call = << >>
    /\ ret = << >>
    /\ NoStitch

\* ui.py:148-178: the fields are read and checked, the button is disabled and
\* the ignored zones are collected
OnStitch ==
    /\ pc = "on_stitch"
    /\ LET dia == float(dialog.via_dia)
           drill == float(dialog.via_drill)
           fx == float(dialog.grid_x)
           fy == float(dialog.grid_y)
           off_x == float(dialog.offset_x)
           off_y == float(dialog.offset_y)
           ignored_ids == [i \in 1 .. Cardinality(dialog.checked) |->
                             dialog.zone_ids[CHOOSE k \in dialog.checked :
                               Cardinality({j \in dialog.checked : j < k}) = i - 1]]
       IN  IF ~ (dia.ok /\ drill.ok /\ fx.ok /\ fy.ok /\ off_x.ok /\ off_y.ok)
           THEN /\ dialog' = [dialog EXCEPT !.message = "Invalid input values"]
                /\ pc' = "returned"
                /\ UNCHANGED call
           ELSE IF fx.value <= 0 \/ fy.value <= 0
           THEN /\ dialog' = [dialog EXCEPT !.message = "Grid spacing must be positive"]
                /\ pc' = "returned"
                /\ UNCHANGED call
           ELSE /\ dialog' = [dialog EXCEPT !.ok_btn = FALSE, !.progress_bar = 0,
                                            !.status_label = Label("Starting...", 0)]
                /\ call' = [positional |-> << dialog.net_choice >>,
                            keywords |->
                              [via_diameter |-> dia.value, via_drill |-> drill.value,
                               grid_x |-> fx.value, grid_y |-> fy.value,
                               offset_x |-> off_x.value, offset_y |-> off_y.value,
                               stagger |-> dialog.chk_stagger,
                               ignored_zone_ids |-> ignored_ids,
                               refill_after |-> dialog.chk_refill_after,
                               progress_callback |-> TRUE]]
                /\ pc' = "stitch"
    /\ UNCHANGED << board, ret, stitch_vars >>

\* ui.py:179-203: the call of stitch, which raises TypeError when it does not
\* bind to stitch's parameters, and what the try statement does with its outcome
OnStitchTry ==
    /\ pc = "stitch"
    /\ \E outcome \in StitchOutcomes :
         /\ ret' = IF accepts(stitch_parameters, stitch_defaults, call.positional,
                              call.keywords)
                   THEN outcome
                   ELSE [raised |-> "TypeError", count |-> 0]
         /\ dialog' = IF ret'.raised = ""
                      THEN [dialog EXCEPT !.progress_bar = 100,
                                          !.status_label = Label("Complete - vias placed",
                                                                 ret'.count),
                                          !.message = "Successfully placed",
                                          !.ended = TRUE]
                      ELSE [dialog EXCEPT !.progress_bar = 0,
                                          !.status_label = Label("Error occurred", 0),
                                          !.message = "Error during stitching"]
    /\ pc' = "finally"
    /\ UNCHANGED << board, call, stitch_vars >>

\* ui.py:204-205
OnStitchFinally ==
    /\ pc = "finally"
    /\ dialog' = [dialog EXCEPT !.ok_btn = TRUE]
    /\ pc' = "returned"
    /\ UNCHANGED << board, call, ret, stitch_vars >>

NextDialog ==
    \/ OnStitch
    \/ OnStitchTry
    \/ OnStitchFinally

SpecDialog == InitDialog /\ [][NextDialog]_vars

(***************************************************************************)
(* Properties of stitch, checked under Spec.                               *)
(***************************************************************************)

left == overall_bbox.pos[1]
top == overall_bbox.pos[2]

\* The square of Chebyshev radius k around the pixel p
Square(p, k) == {<<p[1] + dx, p[2] + dy>> : dx \in -k .. k, dy \in -k .. k}

\* The positions of the vias collected so far
via_positions == {vias_to_add[i].position : i \in 1 .. Len(vias_to_add)}

\* Pixel q is inside the bitmaps, covered by two layers or more and no obstacle
Clear(q) ==
    /\ q \in Pixels(zone_bitmap.width, zone_bitmap.height)
    /\ zone_bitmap.at[q] >= 2
    /\ obstacle_bitmap.at[q] = 0

\* C1: a visited grid point is a via candidate if and only if every pixel of the
\* square of Chebyshev radius 2 around its pixel (its own pixel included) lies
\* inside the bitmap, has layer coverage >= 2 and has obstacle value 0; and
\* every via candidate is a visited grid point.
C1_AcceptedIffClear ==
    /\ via_positions \subseteq visited
    /\ \A v \in visited :
         v \in via_positions <=>
           \A q \in Square(to_pixel(v, overall_bbox, RESOLUTION), 2) : Clear(q)

\* A finished run with a candidate, and with a visited point that is rejected
\* although its own pixel is clear
C1_Witness ==
    /\ pc = "done"
    /\ vias_to_add # << >>
    /\ \E v \in visited :
         /\ v \notin via_positions
         /\ Clear(to_pixel(v, overall_bbox, RESOLUTION))

\* The board has the net
net_found == args.net_name \in board.nets

\* The net has a filled zone on the board
has_filled_zone ==
    \E i \in 1 .. Len(board.zones) :
      board.zones[i].net = args.net_name /\ board.zones[i].filled

\* C2: when the net is not on the board, or has no filled zone, stitch issues
\* no board call at all (no begin_commit, create_items, push_commit,
\* clear_selection, add_to_selection or refill_zones, even with refill_after)
\* and returns 0.
C2_NothingToStitch ==
    (~ net_found \/ ~ has_filled_zone) =>
      /\ calls = << >>
      /\ pc = "done" => (result = 0 /\ ~ raised)

\* A finished run, with refill_after, for a net that is on the board and whose
\* only zone is unfilled
C2_Witness ==
    /\ pc = "done"
    /\ args.refill_after
    /\ net_found
    /\ ~ has_filled_zone
    /\ \E i \in 1 .. Len(board.zones) : board.zones[i].net = args.net_name

\* The run has attempted the board call op
Attempted(op) == \E i \in 1 .. Len(calls) : calls[i].op = op

\* A call of the commit step has failed
CommitFailed ==
    \E i \in 1 .. Len(calls) :
      calls[i].op \in {"begin_commit", "create_items", "push_commit"} /\ ~ calls[i].ok

\* No refill_zones call has failed
RefillOk == \A i \in 1 .. Len(calls) : calls[i].op = "refill_zones" => calls[i].ok

C5_IgnoringNeverLosesCandidates ==
    /\ (pc = "column" /\ row = 0) =>
         obstacle_bitmap =
           rasterize_obstacles(
             [board EXCEPT !.zones =
                SelectSeq(board.zones, LAMBDA z : z.id \notin args.ignored_zone_ids)],
             args.net_name, overall_bbox, RESOLUTION, {})
    /\ (pc = "done" /\ run = 2 /\ ~ raised) => result >= prev.result

\* The spacing the call's grid_x and grid_y resolve to, in board units
resolved_x == mm_to_units(args.grid_x)
resolved_y == mm_to_units(args.grid_y)

\* The sampling loops have their spacings
spacing_set == pc \notin {"find_net", "rasterize"} /\ gx # 0

\* C8 as stated: a spacing that resolves to <= 0 is clamped to one board length
\* unit; a spacing that resolves > 0 is used unchanged.
C8_ClampToOneUnit ==
    spacing_set =>
      /\ gx = IF resolved_x <= 0 THEN 1 ELSE resolved_x
      /\ gy = IF resolved_y <= 0 THEN 1 ELSE resolved_y

\* C8, amended: a spacing that resolves to <= 0 is clamped to 1 mm, which is
\* 1000000 board length units; a spacing that resolves > 0 is used unchanged.
C8_ClampToOneMm ==
    spacing_set =>
      /\ gx = IF resolved_x <= 0 THEN 1000000 ELSE resolved_x
      /\ gy = IF resolved_y <= 0 THEN 1000000 ELSE resolved_y

\* A finished run that sampled with a clamped grid_x and an unclamped grid_y
C8_Witness ==
    /\ pc = "done"
    /\ resolved_x < 0
    /\ resolved_y > 0
    /\ gx = 1000000
    /\ gy = resolved_y
    /\ visited # {}

\* The offset of column i
off(i) == IF args.stagger /\ i % 2 = 1 THEN gy \div 2 ELSE 0

\* The lattice of C7 on the bounding box, both of its ends included
Lattice ==
    { p \in { <<left + i * gx, top + off(i) + j * gy>> :
                i \in 0 .. overall_bbox.size[1] \div gx,
                j \in 0 .. overall_bbox.size[2] \div gy } :
        /\ p[1] <= left + overall_bbox.size[1]
        /\ p[2] <= top + overall_bbox.size[2] }

\* C7: the grid points the sampler visits are exactly the points
\* (left + i*gx, top + off(i) + j*gy), i, j >= 0, with x <= right and
\* y <= bottom, where off(i) is 0 without stagger and, with stagger, gy/2
\* (halved as an integer) for odd i and 0 for even i; while the loops run the
\* visited points are among these.
C7_VisitedIsLattice ==
    spacing_set =>
      /\ visited \subseteq Lattice
      /\ pc \notin {"column", "row"} => visited = Lattice

\* A finished staggered run with an odd gy that visited the first point of
\* column 1, half a spacing down, and the top right corner of the box
C7_Witness ==
    /\ pc = "done"
    /\ args.stagger
    /\ gy % 2 = 1
    /\ <<left + gx, top + gy \div 2>> \in visited
    /\ <<left + overall_bbox.size[1], top>> \in visited

\* Every board call of the run so far has succeeded
AllOk == \A i \in 1 .. Len(calls) : calls[i].ok

ok_call(op, arg) == [op |-> op, ok |-> TRUE, arg |-> arg]

\* The board calls of a run without failures, in order
ExpectedCalls ==
    << ok_call("begin_commit", 0), ok_call("create_items", Len(vias_to_add)),
       ok_call("push_commit", 0), ok_call("clear_selection", 0) >>
      \o [k \in 1 .. Len(vias_to_add) |-> ok_call("add_to_selection", k)]
      \o (IF args.refill_after THEN << ok_call("refill_zones", 0) >> ELSE << >>)

\* C10: in a run with at least one candidate and no failing board call the
\* board calls are, in this order, begin_commit, one create_items with all the
\* candidates, push_commit, clear_selection and one add_to_selection for each
\* candidate, followed by one refill_zones, the last call of the run, when
\* refill_after is set, and by nothing when it is not.
C10_CallOrder ==
    (AllOk /\ Len(vias_to_add) > 0 /\ pc \notin {"find_net", "rasterize", "column", "row"}) =>
      /\ Len(calls) <= Len(ExpectedCalls)
      /\ calls = SubSeq(ExpectedCalls, 1, Len(calls))
      /\ pc = "done" => calls = ExpectedCalls

\* A finished run without failures, with refill_after and two candidates or more
C10_Witness ==
    /\ pc = "done"
    /\ AllOk
    /\ args.refill_after
    /\ Len(vias_to_add) >= 2
    /\ calls[Len(calls)].op = "refill_zones"
    /\ Len(calls) = Len(vias_to_add) + 5

(***************************************************************************)
(* Properties of get_candidate_nets, checked under SpecNets.               *)
(***************************************************************************)

\* The layer identifiers of the filled zones of net n
filled_layers(n) ==
    UNION { {board.zones[i].layers[k] : k \in 1 .. Len(board.zones[i].layers)} :
              i \in {j \in 1 .. Len(board.zones) :
                       board.zones[j].filled /\ board.zones[j].net = n} }

\* The names of the nets that zones of the board belong to
zone_net_names ==
    {board.zones[i].net : i \in 1 .. Len(board.zones)} \ {None}

\* The sequence s is in strictly ascending order, hence without duplicates
Ascending(s) == \A i, j \in 1 .. Len(s) : i < j => str_less(s[i], s[j])

Range(s) == {s[i] : i \in 1 .. Len(s)}

\* C4 as stated: get_candidate_nets returns, ascending and without duplicates,
\* exactly the net names whose filled zones together span at least 2 distinct
\* layer identifiers.
C4_ExactlyTwoLayerNets ==
    pc = "returned" =>
      /\ Ascending(ret)
      /\ Range(ret) = {n \in zone_net_names : Cardinality(filled_layers(n)) >= 2}

\* C4, amended: get_candidate_nets returns, ascending and without duplicates,
\* exactly the non-empty net names whose filled zones together span at least 2
\* distinct layer identifiers; a net on exactly one layer is excluded, unfilled
\* zones contribute no layer, and zones whose net has the empty name are skipped.
C4_ExactlyNamedTwoLayerNets ==
    pc = "returned" =>
      /\ Ascending(ret)
      /\ Range(ret) =
           {n \in zone_net_names \ {""} : Cardinality(filled_layers(n)) >= 2}

\* get_candidate_nets has returned for a board with a filled zone on two layers
\* whose net has the empty name
C4_Witness ==
    /\ pc = "returned"
    /\ Cardinality(filled_layers("")) >= 2
    /\ ret = << "GND" >>

(***************************************************************************)
(* Properties of apply_clearance, checked under SpecErode.                 *)
(***************************************************************************)

clearance_px == call.clearance_nm \div call.resolution

\* The set pixels of the bitmap b
Valid(b) == {p \in Pixels(b.width, b.height) : b.at[p] # 0}

Chebyshev(p, q) == Max(Abs(p[1] - q[1]), Abs(p[2] - q[2]))

\* C6 as stated: with clearance_px = 0 the input is returned unchanged; with
\* clearance_px = k >= 1 the set pixels of the output are among those of the
\* input and no pixel kept in the output is within Chebyshev distance k of a
\* pixel that was removed (set in the input, unset in the output).
C6_NoKeptNearRemoved ==
    pc = "returned" =>
      /\ clearance_px = 0 => ret = call.bitmap
      /\ clearance_px >= 1 =>
           /\ Valid(ret) \subseteq Valid(call.bitmap)
           /\ \A p \in Valid(ret) : \A q \in Valid(call.bitmap) \ Valid(ret) :
                Chebyshev(p, q) > clearance_px

\* C6, amended: with clearance_px = 0 the input is returned unchanged; with
\* clearance_px = k >= 1 the set pixels of the output are among those of the
\* input, and every pixel within Chebyshev distance k of a pixel kept in the
\* output is inside the bitmap and set in the input.
C6_NoKeptNearUnset ==
    pc = "returned" =>
      /\ clearance_px = 0 => ret = call.bitmap
      /\ clearance_px >= 1 =>
           /\ ret.width = call.bitmap.width /\ ret.height = call.bitmap.height
           /\ Valid(ret) \subseteq Valid(call.bitmap)
           /\ \A p \in Valid(ret) : \A q \in Square(p, clearance_px) :
                /\ q \in Pixels(call.bitmap.width, call.bitmap.height)
                /\ call.bitmap.at[q] # 0

\* apply_clearance has returned, with clearance_px = 2, a bitmap that keeps a
\* pixel, for an input with an unset pixel
C6_Witness ==
    /\ pc = "returned"
    /\ clearance_px = 2
    /\ Valid(ret) # {}
    /\ Valid(call.bitmap) # Pixels(call.bitmap.width, call.bitmap.height)

(***************************************************************************)
(* Properties of rasterize_zones_by_layer, checked under SpecHole.  A      *)
(* pixel (c, r) is the square cell [c, c+1] x [r, r+1] of the bitmap, in   *)
(* pixels from the bounding box's origin.                                  *)
(***************************************************************************)

the_outline == call.zones[1].filled_polygons[1].polys[1].outline
the_hole == call.zones[1].filled_polygons[1].polys[1].holes[1]

\* Twice the signed area of the triangle a, b, q
Turn(a, b, q) == (b[1] - a[1]) * (q[2] - a[2]) - (b[2] - a[2]) * (q[1] - a[1])

Next1(poly, i) == poly[(i % Len(poly)) + 1]

\* The point q is in the closed convex polygon poly
InPoly(poly, q) ==
    \/ \A i \in 1 .. Len(poly) : Turn(poly[i], Next1(poly, i), q) >= 0
    \/ \A i \in 1 .. Len(poly) : Turn(poly[i], Next1(poly, i), q) =< 0

\* The corners, in board units, of the cells c .. c + w - 1 of row r
Corners(c, r, w) ==
    { <<(c + dx) * call.resolution + call.bbox.pos[1],
        (r + dy) * call.resolution + call.bbox.pos[2]>> : dx \in {0, w}, dy \in {0, 1} }

\* The cell of pixel <<c, r>> lies in the closed convex polygon poly
CellInside(poly, c, r) == \A q \in Corners(c, r, 1) : InPoly(poly, q)

\* The points qs lie strictly beyond the line of edge i of the convex polygon poly
BeyondEdge(poly, i, qs) ==
    LET a == poly[i]
        b == Next1(poly, i)
    IN  IF \A k \in 1 .. Len(poly) : Turn(a, b, poly[k]) >= 0
        THEN \A q \in qs : Turn(a, b, q) < 0
        ELSE \A q \in qs : Turn(a, b, q) > 0

\* The cells c .. c + w - 1 of row r have no point in common with the closed
\* convex polygon poly: a line along an edge of either separates them
CellsApart(poly, c, r, w) ==
    LET qs == Corners(c, r, w)
        ps == {poly[k] : k \in 1 .. Len(poly)}
    IN  \/ \E i \in 1 .. Len(poly) : BeyondEdge(poly, i, qs)
        \/ \E d \in {1, 2} :
             \/ \A p \in ps : \A q \in qs : p[d] < q[d]
             \/ \A p \in ps : \A q \in qs : p[d] > q[d]

\* C9 as stated: coverage is 0 at every pixel inside the hole and nonzero at
\* every pixel that is inside the outline and outside the hole.
C9_HoleExact ==
    pc = "returned" =>
      \A p \in Pixels(ret.width, ret.height) :
        /\ CellInside(the_hole, p[1], p[2]) => ret.at[p] = 0
        /\ (CellInside(the_outline, p[1], p[2]) /\ CellsApart(the_hole, p[1], p[2], 1))
             => ret.at[p] # 0

\* C9, amended: coverage is 0 at every pixel inside the hole, and nonzero at
\* every pixel inside the outline for which neither the pixel nor its
\* right-hand neighbour has a point in common with the hole.
C9_HoleWithinOnePixel ==
    pc = "returned" =>
      \A p \in Pixels(ret.width, ret.height) :
        /\ CellInside(the_hole, p[1], p[2]) => ret.at[p] = 0
        /\ (CellInside(the_outline, p[1], p[2]) /\ CellsApart(the_hole, p[1], p[2], 2))
             => ret.at[p] # 0

\* rasterize_zones_by_layer has returned for a hole with a slanted edge: a pixel
\* inside the hole, a pixel inside the outline and clear of the hole, and a
\* pixel outside the hole where the coverage is 0
C9_Witness ==
    /\ pc = "returned"
    /\ the_hole[1][1] # the_hole[4][1]
    /\ \E p \in Pixels(ret.width, ret.height) : CellInside(the_hole, p[1], p[2])
    /\ \E p \in Pixels(ret.width, ret.height) :
         /\ CellInside(the_outline, p[1], p[2])
         /\ CellsApart(the_hole, p[1], p[2], 2)
    /\ \E p \in Pixels(ret.width, ret.height) :
         /\ CellInside(the_outline, p[1], p[2])
         /\ CellsApart(the_hole, p[1], p[2], 1)
         /\ ret.at[p] = 0

(***************************************************************************)
(* The percents handed to progress_callback                                *)
(***************************************************************************)

\* a/b <= c/d for fractions with positive denominators
FracLeq(a, b) == a[1] * b[2] <= b[1] * a[2]

\* The milestones before the sampling loops
FirstMilestones == << <<10, 1>>, <<15, 1>>, <<35, 1>>, <<55, 1>>, <<60, 1>>, <<65, 1>> >>

\* The milestones after the sampling loops, in every selection the code can
\* report: 90 always, 95 and 99 each under its own condition
LastMilestones ==
    { << >>, << <<90, 1>> >>, << <<90, 1>>, <<95, 1>> >>, << <<90, 1>>, <<99, 1>> >>,
      << <<90, 1>>, <<95, 1>>, <<99, 1>> >> }

\* The grid points visited in the first i columns
visited_in_columns(i) == Cardinality({p \in visited : p[1] < left + i * gx})

\* The percents reported once the columns are done
after_columns == SubSeq(progress, 7 + row, Len(progress))

\* A call of op has returned
Succeeded(op) == \E i \in 1 .. Len(calls) : calls[i].op = op /\ calls[i].ok

pad_dimensions(pad) ==
    UNION { {pad.copper_layers[i][1], pad.copper_layers[i][2]} :
              i \in {j \in 1 .. Len(pad.copper_layers) : Len(pad.copper_layers[j]) > 0} }

\* The largest member of a non-empty set of numbers
Largest(S) == CHOOSE m \in S : \A k \in S : k <= m

\* The diameter C12 gives the pad's circle: the largest dimension when there is
\* size data, whatever its magnitude, and 1 mm (radius 0.5 mm) without any
stated_diameter_nm(pad) ==
    IF pad_dimensions(pad) = {} THEN DEFAULT_PAD_NM ELSE Largest(pad_dimensions(pad))

\* Pixel p is within the circle around pixel c of the given radius
InCircle(p, c, radius_px) ==
    (p[1] - c[1]) * (p[1] - c[1]) + (p[2] - c[2]) * (p[2] - c[2]) <= radius_px * radius_px

\* The pads of the board that are not on the net of the call
foreign_pads == { i \in 1 .. Len(board.pads) : ~ on_net(board.pads[i], call.net_name) }

\* C12: for every pad not on the target net the obstacle bitmap has a filled
\* circle at the pad's pixel whose radius is half of the largest copper-layer
\* dimension whenever a layer has a size, also when that dimension is below
\* 1 mm, and 0.5 mm only when no layer has a size; nothing else is set.
C12_RadiusFromSize ==
    pc = "returned" =>
      \A p \in Pixels(ret.width, ret.height) :
        ret.at[p] > 0 <=>
          \E i \in foreign_pads :
            InCircle(p, to_pixel(board.pads[i].position, call.bbox, call.resolution),
                     TruncDiv(stated_diameter_nm(board.pads[i]), 2 * call.resolution))

\* What rasterize_obstacles does instead: the default of 1 mm is the least
\* diameter, so a pad whose dimensions are all below 1 mm gets the circle of
\* radius 0.5 mm as well
C12_RadiusAtLeastDefault ==
    pc = "returned" =>
      \A p \in Pixels(ret.width, ret.height) :
        ret.at[p] > 0 <=>
          \E i \in foreign_pads :
            InCircle(p, to_pixel(board.pads[i].position, call.bbox, call.resolution),
                     TruncDiv(Max(DEFAULT_PAD_NM, stated_diameter_nm(board.pads[i])),
                              2 * call.resolution))

(***************************************************************************)
(* Properties of rasterize_zones_by_layer on fills that share a layer,     *)
(* checked under SpecCover.                                                *)
(***************************************************************************)

\* The pixels of a polygon drawn on its own
drawn_pixels(nodes) ==
    LET b == rasterize_polygon(zeros(bitmap_height(call.bbox, call.resolution),
                                     bitmap_width(call.bbox, call.resolution)),
                               nodes, call.bbox, call.resolution, 1)
    IN  { p \in Pixels(b.width, b.height) : b.at[p] > 0 }

\* The pixels of a fill polygon: its outline minus its own holes
poly_pixels(poly) ==
    drawn_pixels(poly.outline)
      \ UNION { drawn_pixels(poly.holes[h]) : h \in 1 .. Len(poly.holes) }

\* The (layer, polygon list) items of all zones of the call
call_items ==
    UNION { { call.zones[i].filled_polygons[k] :
                k \in 1 .. Len(call.zones[i].filled_polygons) } :
            i \in 1 .. Len(call.zones) }

call_layers == { item.layer : item \in call_items }

\* The union, over the polygons of all zones on layer l, of outline minus own holes
layer_pixels(l) ==
    UNION { UNION { poly_pixels(item.polys[j]) : j \in 1 .. Len(item.polys) } :
            item \in { it \in call_items : it.layer = l } }

\* The zones of the call in the opposite order, each with its polygon lists in
\* the opposite order
Reverse(seq) == [i \in 1 .. Len(seq) |-> seq[Len(seq) + 1 - i]]

reversed_zones ==
    Reverse([i \in 1 .. Len(call.zones) |->
               [call.zones[i] EXCEPT !.filled_polygons =
                  [k \in 1 .. Len(@) |-> [@[k] EXCEPT !.polys = Reverse(@)]]]])

\* C13: the coverage of a pixel is the number of layers on which the pixel is
\* in the union, over all polygons of all zones on that layer, of outline
\* minus the polygon's own holes; it lies between 0 and the number of layers;
\* and it does not depend on the order of the zones and polygons.
C13_CoverageIsUnion ==
    pc = "returned" =>
      LET cover == [l \in call_layers |-> layer_pixels(l)] @@ << >>
      IN  /\ \A p \in Pixels(ret.width, ret.height) :
               /\ ret.at[p] = Cardinality({l \in call_layers : p \in cover[l]})
               /\ 0 <= ret.at[p] /\ ret.at[p] <= Cardinality(call_layers)
          /\ ret = rasterize_zones_by_layer(reversed_zones, call.bbox, call.resolution)

\* What holds in every call: the coverage is within 0 .. number of layers and
\* never above the count over the unions, and equals it when no polygon of the
\* call has a hole
C13_CoverageWithinUnion ==
    pc = "returned" =>
      LET cover == [l \in call_layers |-> layer_pixels(l)] @@ << >>
          no_holes == \A item \in call_items :
                        \A j \in 1 .. Len(item.polys) : item.polys[j].holes = << >>
      IN  \A p \in Pixels(ret.width, ret.height) :
            /\ 0 <= ret.at[p] /\ ret.at[p] <= Cardinality(call_layers)
            /\ ret.at[p] <= Cardinality({l \in call_layers : p \in cover[l]})
            /\ no_holes => ret.at[p] = Cardinality({l \in call_layers : p \in cover[l]})

(***************************************************************************)
(* Properties of rasterize_polygon's pixel coordinates, checked under      *)
(* SpecVertex.                                                             *)
(***************************************************************************)

\* The offset of node i from the origin of the box on axis a (1: x, 2: y)
node_offset(i, a) == call.nodes[i][a] - call.bbox.pos[a]

\* C14 as stated: every vertex maps to floor((v - bbox.origin) / resolution) on
\* both axes, also when it lies to the left of or above the origin of the box.
C14_VertexFloor ==
    pc = "returned" =>
      \A i \in 1 .. Len(call.nodes) : \A a \in {1, 2} :
        ret.points[i][a] = node_offset(i, a) \div call.resolution

\* C14: every vertex maps to (v - bbox.origin) / resolution truncated toward
\* zero on both axes: the pixel coordinate q has the sign of the offset, q *
\* resolution is not beyond the offset and less than one pixel short of it.
\* This is the floor for a vertex at or beyond the origin and the ceiling for a
\* vertex to the left of or above it.
C14_VertexTruncated ==
    pc = "returned" =>
      \A i \in 1 .. Len(call.nodes) : \A a \in {1, 2} :
        LET q == ret.points[i][a]
            d == node_offset(i, a)
        IN  /\ q * d >= 0
            /\ Abs(q * call.resolution) <= Abs(d)
            /\ Abs(d - q * call.resolution) < call.resolution
            /\ d >= 0 => q = d \div call.resolution
            /\ d < 0 => q = -((-d) \div call.resolution)

\* A polygon with a vertex left of the origin, off the pixel raster, whose
\* pixel coordinate is not the floor, and with a vertex above the origin alike
C14_Witness ==
    /\ pc = "returned"
    /\ \E i \in 1 .. Len(call.nodes) :
         /\ node_offset(i, 1) < 0
         /\ node_offset(i, 1) % call.resolution # 0
         /\ ret.points[i][1] = (node_offset(i, 1) \div call.resolution) + 1
    /\ \E i \in 1 .. Len(call.nodes) :
         /\ node_offset(i, 2) < 0
         /\ node_offset(i, 2) % call.resolution # 0
         /\ ret.points[i][2] = (node_offset(i, 2) \div call.resolution) + 1

(***************************************************************************)
(* Termination of the sampling loops, checked under SpecLoops.             *)
(***************************************************************************)

\* One iteration of the inner loop moves y up, one of the outer loop moves x up
LoopsAdvance ==
    /\ (pc = "row" /\ pc' = "row") => y' >= y + 1
    /\ (pc = "row" /\ pc' = "column") => x' >= x + 1

\* stitch is at its commit step: past both loops
at_commit == pc \in {"begin_commit", "refill"}

\* C15: for every grid_x and grid_y (positive, zero, negative, or truncating to
\* 0 in board length units), with and without stagger, the sampling loops end:
\* every iteration raises y, or x, by 1 or more, so that stitch gets from the
\* start of the loops to its commit step and from there to its end.
C15_LoopsTerminate ==
    /\ [][LoopsAdvance]_vars
    /\ (pc = "column") ~> at_commit
    /\ (pc = "column") ~> (pc = "done")

\* A call with a spacing that resolves to 0 or less has gone through its loops,
\* with stagger, and has come to its end
C15_Witness ==
    /\ pc = "done"
    /\ resolved_x <= 0 \/ resolved_y <= 0
    /\ args.stagger
    /\ points_checked > 0
    /\ x > left + overall_bbox.size[1]

(***************************************************************************)
(* The commit opened by stitch, checked under Spec.                        *)
(***************************************************************************)

\* C16: when stitch has come to its end, a commit it has opened with
\* begin_commit has been closed: push_commit has been called on it and has
\* gone through (the code has no other call that closes a commit), also when
\* create_items or push_commit has failed.
C16_BegunCommitClosed ==
    (pc = "done" /\ Succeeded("begin_commit")) => Succeeded("push_commit")

\* What holds: the commit is closed when no call of the commit step has failed,
\* and push_commit is not even called after a failure of create_items
C16_ClosedUnlessFailed ==
    /\ (pc = "done" /\ Succeeded("begin_commit") /\ ~ CommitFailed) => Succeeded("push_commit")
    /\ (\E i \in 1 .. Len(calls) : calls[i].op = "create_items" /\ ~ calls[i].ok)
         => ~ Attempted("push_commit")

(***************************************************************************)
(* Properties of the dialog's Generate action, checked under SpecDialog.   *)
(***************************************************************************)

\* on_stitch has got past its checks: the fields are numbers and the grid
\* spacings are positive
started == pc \in {"stitch", "finally", "returned"} /\ call # << >>

\* C17: when on_stitch runs with numeric fields and positive grid spacings, its
\* call of stitch binds to stitch's parameters, so that unless the pipeline
\* itself raises the dialog ends on the success path (progress bar at 100,
\* status 'Complete - N vias placed') and not on 'Error occurred'; and in every
\* outcome the Generate button is enabled once on_stitch has returned.
C17_ReachesSuccess ==
    /\ started =>
         accepts(stitch_parameters, stitch_defaults, call.positional, call.keywords)
    /\ (pc = "returned" /\ started /\ ret.raised # "Exception") =>
         /\ dialog.progress_bar = 100
         /\ dialog.status_label = Label("Complete - vias placed", ret.count)
    /\ pc = "returned" => dialog.ok_btn

\* What holds: the call passes offset_x and offset_y, which stitch does not
\* have, so that every run that gets past the checks ends with TypeError on
\* the 'Error occurred' path with the progress bar at 0; the Generate button
\* is enabled in every outcome
C17_AlwaysError ==
    /\ started => {"offset_x", "offset_y"} \subseteq DOMAIN call.keywords
    /\ (pc = "returned" /\ started) =>
         /\ ret.raised = "TypeError"
         /\ dialog.progress_bar = 0
         /\ dialog.status_label = Label("Error occurred", 0)
         /\ ~ dialog.ended
    /\ pc = "returned" => dialog.ok_btn

====
